---- MODULE Spec2Model ----
(***************************************************************************)
(* A model of the Open Floor parrot agent (src/src/parrot-agent.ts) and of *)
(* the agent instance the server creates (src/src/server.ts).              *)
(*                                                                         *)
(* Representation of JavaScript values:                                    *)
(*   - a string is a TLA+ string; the parrot emoji U+1F99C is written      *)
(*     "U+1F99C" because the module is ASCII;                              *)
(*   - an absent optional string is Undefined;                             *)
(*   - an optional object carries a "defined"/"present" flag;              *)
(*   - the number 1.0 of a confidence is the string "1.0".                 *)
(***************************************************************************)
EXTENDS Integers, Sequences, FiniteSets, TLC

(***************************************************************************)
(* Bounds of the model.                                                    *)
(***************************************************************************)
\* longest inbound event sequence built from EventPool
MaxEvents == 3
\* longest token array of a text feature
MaxTokens == 2
\* number of processEnvelope invocations that may be in flight together
MaxCalls == 2
\* longest inbound event sequence of a concurrent invocation
MaxConcEvents == 2

Undefined == "undefined"

SeqsUpTo(S, n) == UNION {[1..k -> S] : k \in 0..n}

Range(s) == {s[k] : k \in 1..Len(s)}

(***************************************************************************)
(* The agent: createParrotAgent and the two instances of server.ts.        *)
(***************************************************************************)
ServerOptions ==
  [speakerUri   |-> "tag:openfloor-demo.com,2025:parrot-agent",
   serviceUrl   |-> "https://kmhhywpw32.us-east-1.awsapprunner.com/",
   name         |-> "Polly the Parrot",
   organization |-> "OpenFloor Demo Corp",
   description  |-> "A friendly parrot that repeats everything you say!"]

ServerOptionsAlt ==
  [speakerUri   |-> "tag:openfloor-demo.com,2025:parrot-agent",
   serviceUrl   |-> "https://your-app-runner-url.amazonaws.com",
   name         |-> "Polly the Parrot",
   organization |-> "OpenFloor Demo Corp",
   description  |-> "A friendly parrot that repeats everything you say!"]

\* a caller that leaves every optional option out
DefaultedOptions ==
  [speakerUri   |-> "tag:openfloor-demo.com,2025:parrot-agent",
   serviceUrl   |-> "https://kmhhywpw32.us-east-1.awsapprunner.com/",
   name         |-> Undefined,
   organization |-> Undefined,
   description  |-> Undefined]

AgentOptions == {ServerOptions, ServerOptionsAlt, DefaultedOptions}

\* a destructuring default: used when the option is undefined
OrDefault(v, d) == IF v = Undefined THEN d ELSE v

Capabilities ==
  << [keyphrases   |-> <<"echo", "repeat", "parrot", "say">>,
      descriptions |-> <<"Echoes back any text message with a parrot emoji",
                         "Repeats user input verbatim",
                         "Simple text mirroring functionality">>] >>

\* the manifest createParrotAgent builds from its options
ManifestOf(options) ==
  [identification |->
     [speakerUri         |-> options.speakerUri,
      serviceUrl         |-> options.serviceUrl,
      organization       |-> OrDefault(options.organization, "OpenFloor Demo"),
      conversationalName |-> OrDefault(options.name, "Parrot Agent"),
      synopsis           |-> OrDefault(options.description,
        "A simple parrot agent that echoes back messages with a parrot emoji")],
   capabilities |-> Capabilities]

\* new ParrotAgent(manifest): the identity is the manifest's identification
createParrotAgent(options) ==
  LET manifest == ManifestOf(options) IN
  [speakerUri |-> manifest.identification.speakerUri,
   serviceUrl |-> manifest.identification.serviceUrl,
   manifest   |-> manifest]

\* this.manifest.toObject(): the plain object with the manifest's two parts
ManifestToObject(manifest) ==
  [identification |-> manifest.identification,
   capabilities   |-> manifest.capabilities]

(***************************************************************************)
(* Inbound values: addressing, dialog events, events, envelopes.           *)
(***************************************************************************)
AgentSpeakerUri == "tag:openfloor-demo.com,2025:parrot-agent"

SpeakerUris == {Undefined, AgentSpeakerUri, "tag:example.com,2025:other-agent"}

ServiceUrls == {Undefined,
                "https://kmhhywpw32.us-east-1.awsapprunner.com/",
                "https://elsewhere.example.com/"}

\* event.to is absent
NoTo == [present |-> FALSE, speakerUri |-> Undefined, serviceUrl |-> Undefined]

To(speakerUri, serviceUrl) ==
  [present |-> TRUE, speakerUri |-> speakerUri, serviceUrl |-> serviceUrl]

ToValues == {NoTo} \cup {To(s, u) : s \in SpeakerUris, u \in ServiceUrls}

TokenValues == {"A", "B", "C", "Hello, ", "world!"}

NoTokens == [kind |-> "undefined", items |-> <<>>]

NoTextFeature == [defined |-> FALSE, tokens |-> NoTokens]

TextFeature(tokens) == [defined |-> TRUE, tokens |-> tokens]

TokenArray(values) ==
  [kind |-> "array", items |-> [k \in 1..Len(values) |-> [value |-> values[k]]]]

\* the shapes a text feature's tokens can have: absent, not an array, an array
TokensShapes ==
  {NoTokens, [kind |-> "object", items |-> <<>>]}
    \cup {TokenArray(v) : v \in SeqsUpTo(TokenValues, MaxTokens)}

NoFeatures == [kind |-> "undefined", text |-> NoTextFeature]

\* dialogEvent.features: absent, a plain object without get(), or a Map
FeaturesShapes ==
  {NoFeatures,
   [kind |-> "object", text |-> NoTextFeature],
   [kind |-> "map", text |-> NoTextFeature]}
    \cup {[kind |-> "map", text |-> TextFeature(t)] : t \in TokensShapes}

NoDialogEvent == [defined |-> FALSE, features |-> NoFeatures]

DialogEvents ==
  {NoDialogEvent} \cup {[defined |-> TRUE, features |-> f] : f \in FeaturesShapes}

TextDialog(values) ==
  [defined |-> TRUE, features |-> [kind |-> "map", text |-> TextFeature(TokenArray(values))]]

Utterance(to, dialogEvent) ==
  [eventType |-> "utterance", to |-> to, dialogEvent |-> dialogEvent]

\* an event that is no utterance; it has no dialog event
Event(eventType, to) ==
  [eventType |-> eventType, to |-> to, dialogEvent |-> NoDialogEvent]

\* every event shape, used alone in an envelope
RichEvents ==
  {Utterance(to, d) : to \in ToValues, d \in DialogEvents}
    \cup {Event(k, to) : k \in {"getManifests", "invite"}, to \in ToValues}

\* the events longer envelopes are built from
EventPool ==
  {Utterance(NoTo, TextDialog(<<"A">>)),
   Utterance(NoTo, TextDialog(<<"B">>)),
   Utterance(NoTo, TextDialog(<<"C">>)),
   Utterance(To("tag:example.com,2025:other-agent", Undefined), TextDialog(<<"A">>)),
   Utterance(To(AgentSpeakerUri, Undefined), NoDialogEvent),
   Utterance(To("tag:example.com,2025:other-agent",
                "https://kmhhywpw32.us-east-1.awsapprunner.com/"), TextDialog(<<"B">>)),
   Event("getManifests", NoTo),
   Event("getManifests", To(AgentSpeakerUri, Undefined)),
   Event("getManifests", To("tag:example.com,2025:other-agent", Undefined)),
   Event("invite", NoTo)}

SchemaVersions == {"1.0.0", "1.1.0"}

ConversationIds == {"conv-1", "conv-2"}

Senders == {[speakerUri |-> "tag:example.com,2025:user", serviceUrl |-> Undefined],
            [speakerUri |-> "tag:example.com,2025:floor",
             serviceUrl |-> "https://floor.example.com/"]}

Envelope(version, id, sender, events) ==
  [schema |-> [version |-> version], conversation |-> [id |-> id],
   sender |-> sender, events |-> events]

\* an envelope slot that holds no envelope yet
NoEnvelope ==
  Envelope(Undefined, Undefined, [speakerUri |-> Undefined, serviceUrl |-> Undefined], <<>>)

RichEnvelopes ==
  {Envelope(v, id, s, <<e>>) :
     v \in SchemaVersions, id \in ConversationIds, s \in Senders, e \in RichEvents}

LongEnvelopes ==
  {Envelope(h[1], h[2], h[3], es) :
     h \in {<<"1.0.0", "conv-1", [speakerUri |-> "tag:example.com,2025:user",
                                  serviceUrl |-> Undefined]>>,
            <<"1.1.0", "conv-2", [speakerUri |-> "tag:example.com,2025:floor",
                                  serviceUrl |-> "https://floor.example.com/"]>>},
     es \in SeqsUpTo(EventPool, MaxEvents)}

\* the inbound envelopes of a single invocation
Envelopes == RichEnvelopes \cup LongEnvelopes

\* the inbound envelopes of concurrent invocations
ConcEnvelopes ==
  {Envelope("1.0.0", "conv-1",
            [speakerUri |-> "tag:example.com,2025:user", serviceUrl |-> Undefined], es) :
     es \in SeqsUpTo({Utterance(NoTo, TextDialog(<<"A">>)),
                      Event("getManifests", NoTo)}, MaxConcEvents)}

(***************************************************************************)
(* Library helpers the agent calls, by what the agent relies on.           *)
(***************************************************************************)
\* isUtteranceEvent(event)
isUtteranceEvent_any(event) == event.eventType # "getManifests"

isUtteranceEvent(event) == event.eventType = "utterance"

\* createTextUtterance({speakerUri, text, to, confidence?})
createTextUtterance(speakerUri, text, to, confidence) ==
  [eventType |-> "utterance", speakerUri |-> speakerUri, text |-> text,
   to |-> to, confidence |-> confidence]

\* Array.prototype.join: the items in order, sep between neighbours
RECURSIVE Join(_, _)
Join(items, sep) ==
  IF Len(items) = 0 THEN ""
  ELSE IF Len(items) = 1 THEN items[1]
  ELSE items[1] \o sep \o Join(Tail(items), sep)

\* how a statement completes: it returns a value or it throws
Return(value) == [kind |-> "return", value |-> value]

Throw(name) == [kind |-> "throw", value |-> [eventType |-> name]]

NoCompletion == [kind |-> "none", value |-> [eventType |-> Undefined]]

(***************************************************************************)
(* ParrotAgent._handleParrotUtterance                                      *)
(***************************************************************************)
ChirpText == "U+1F99C *chirp* I can only repeat text messages!"

ConfusedChirpText ==
  "U+1F99C *confused chirp* Something went wrong while trying to repeat that!"

\* the recipient of every reply: { speakerUri: inEnvelope.sender.speakerUri }
ReplyTo_wholeSender(inEnvelope) ==
  To(inEnvelope.sender.speakerUri, inEnvelope.sender.serviceUrl)

ReplyTo(inEnvelope) == To(inEnvelope.sender.speakerUri, Undefined)

\* textFeature.tokens.map(token => token.value).join('')
OriginalText_spaced(tokens) == Join([k \in 1..Len(tokens.items) |-> tokens.items[k].value], " ")

OriginalText(tokens) == Join([k \in 1..Len(tokens.items) |-> tokens.items[k].value], "")

\* `U+1F99C ${originalText}`
ParrotText(originalText) == "U+1F99C " \o originalText

\* !textFeature || !textFeature.tokens || textFeature.tokens.length === 0
NothingToParrot_anyTokens(textFeature) ==
  \/ ~textFeature.defined
  \/ textFeature.tokens.kind = "undefined"

NothingToParrot(textFeature) ==
  \/ ~textFeature.defined
  \/ textFeature.tokens.kind = "undefined"
  \/ (textFeature.tokens.kind = "array" /\ Len(textFeature.tokens.items) = 0)

\* the reply when there is no text to parrot
ChirpReply_confident(agt, inEnvelope) ==
  createTextUtterance(agt.speakerUri, ChirpText, ReplyTo(inEnvelope), "1.0")

ChirpReply(agt, inEnvelope) ==
  createTextUtterance(agt.speakerUri, ChirpText, ReplyTo(inEnvelope), Undefined)

\* the reply that echoes the text
ParrotReply_unsure(agt, inEnvelope, tokens) ==
  createTextUtterance(agt.speakerUri, ParrotText(OriginalText(tokens)),
                      ReplyTo(inEnvelope), Undefined)

ParrotReply(agt, inEnvelope, tokens) ==
  createTextUtterance(agt.speakerUri, ParrotText(OriginalText(tokens)),
                      ReplyTo(inEnvelope), "1.0")

\* the body of the try block
TryBody(agt, event, inEnvelope) ==
  LET dialogEvent == event.dialogEvent IN
  IF ~dialogEvent.defined
    THEN Throw("TypeError")                 \* reading .features of undefined
  ELSE IF dialogEvent.features.kind = "object"
    THEN Throw("TypeError")                 \* features.get is not a function
  ELSE
    LET textFeature == IF dialogEvent.features.kind = "undefined"
                         THEN NoTextFeature \* features?.get yields undefined
                         ELSE dialogEvent.features.text
    IN IF NothingToParrot(textFeature)
         THEN Return(ChirpReply(agt, inEnvelope))
       ELSE IF textFeature.tokens.kind # "array"
         THEN Throw("TypeError")            \* tokens.map is not a function
       ELSE Return(ParrotReply(agt, inEnvelope, textFeature.tokens))

\* the catch block
CatchReply_chirp(agt, inEnvelope) ==
  createTextUtterance(agt.speakerUri, ChirpText, ReplyTo(inEnvelope), Undefined)

CatchReply(agt, inEnvelope) ==
  createTextUtterance(agt.speakerUri, ConfusedChirpText, ReplyTo(inEnvelope), Undefined)

\* _handleParrotUtterance(event, inEnvelope): the completion of its promise
HandleParrotUtterance_uncaught(agt, event, inEnvelope) == TryBody(agt, event, inEnvelope)

HandleParrotUtterance(agt, event, inEnvelope) ==
  LET body == TryBody(agt, event, inEnvelope) IN
  IF body.kind = "throw" THEN Return(CatchReply(agt, inEnvelope)) ELSE body

(***************************************************************************)
(* ParrotAgent.processEnvelope                                             *)
(*                                                                         *)
(* agent is the one ParrotAgent instance of the server.  calls[c] is the   *)
(* frame of invocation c of processEnvelope: its position (pc), its        *)
(* argument, its loop index, its local list responseEvents, the completion *)
(* of the promise it awaits and the envelope it returned.  Two fields are  *)
(* history only: causes[k] is the index of the inbound event that          *)
(* responseEvents[k] answers, and solo tells that no other invocation was  *)
(* suspended while this one ran.  requests[r] is the POST / request whose  *)
(* handler runs invocation r; it is empty where no server is modelled.     *)
(***************************************************************************)
VARIABLES agent, calls, requests

vars == <<agent, calls, requests>>

IdleFrame ==
  [pc |-> "idle", inEnvelope |-> NoEnvelope, idx |-> 0, responseEvents |-> <<>>,
   causes |-> <<>>, pending |-> NoCompletion, outEnvelope |-> NoEnvelope,
   solo |-> TRUE]

\* !event.to || event.to.speakerUri === this.speakerUri
\*            || event.to.serviceUrl === this.serviceUrl
\* (AddressedToMe_anyService: the serviceUrl is tested for presence only)
AddressedToMe_anyService(agt, event) ==
  \/ ~event.to.present
  \/ event.to.speakerUri = agt.speakerUri
  \/ event.to.serviceUrl # Undefined

AddressedToMe_speakerOnly(agt, event) ==
  \/ ~event.to.present
  \/ event.to.speakerUri = agt.speakerUri

AddressedToMe(agt, event) ==
  \/ ~event.to.present
  \/ event.to.speakerUri = agt.speakerUri
  \/ event.to.serviceUrl = agt.serviceUrl

\* the event pushed for a getManifests event
PublishManifests_singular(agt, inEnvelope) ==
  [eventType  |-> "publishManifest",
   to         |-> ReplyTo(inEnvelope),
   parameters |-> [servicingManifests |-> <<ManifestToObject(agt.manifest)>>]]

PublishManifests(agt, inEnvelope) ==
  [eventType  |-> "publishManifests",
   to         |-> ReplyTo(inEnvelope),
   parameters |-> [servicingManifests |-> <<ManifestToObject(agt.manifest)>>]]

\* responseEvents.push(event), in the frame of invocation c
Push_front(cs, c, event) ==
  [cs EXCEPT ![c].responseEvents = <<event>> \o @,
             ![c].causes = <<cs[c].idx>> \o @]

\* the list is one field of the agent: every frame sees the push
Push_shared(cs, c, event) ==
  [d \in DOMAIN cs |->
     [cs[d] EXCEPT !.responseEvents = Append(@, event),
                   !.causes = Append(@, cs[c].idx)]]

Push(cs, c, event) ==
  [cs EXCEPT ![c].responseEvents = Append(@, event),
             ![c].causes = Append(@, cs[c].idx)]

\* the envelope processEnvelope returns
ReplyEnvelope_echoSender(agt, inEnvelope, responseEvents) ==
  Envelope(inEnvelope.schema.version, inEnvelope.conversation.id,
           inEnvelope.sender, responseEvents)

ReplyEnvelope(agt, inEnvelope, responseEvents) ==
  Envelope(inEnvelope.schema.version, inEnvelope.conversation.id,
           [speakerUri |-> agt.speakerUri, serviceUrl |-> agt.serviceUrl],
           responseEvents)

\* entry of processEnvelope(inEnvelope): a fresh frame with an empty list
\* (Enter_keptList: the list is never emptied, an invocation starts with what
\* an invocation that returned has left in it)
Enter_keptList(cs, c, inEnvelope) ==
  LET left == {d \in DOMAIN cs : cs[d].pc = "returned"}
      kept == IF left = {} THEN c ELSE CHOOSE d \in left : TRUE
  IN [d \in DOMAIN cs |->
        IF d = c
          THEN [pc |-> "running", inEnvelope |-> inEnvelope, idx |-> 1,
                responseEvents |-> cs[kept].responseEvents,
                causes |-> cs[kept].causes, pending |-> NoCompletion,
                outEnvelope |-> NoEnvelope,
                solo |-> \A o \in DOMAIN cs \ {c} : cs[o].pc # "await"]
        ELSE IF cs[d].pc = "await" THEN [cs[d] EXCEPT !.solo = FALSE]
        ELSE cs[d]]

Enter(cs, c, inEnvelope) ==
  [d \in DOMAIN cs |->
     IF d = c
       THEN [pc |-> "running", inEnvelope |-> inEnvelope, idx |-> 1,
             responseEvents |-> <<>>, causes |-> <<>>, pending |-> NoCompletion,
             outEnvelope |-> NoEnvelope,
             solo |-> \A o \in DOMAIN cs \ {c} : cs[o].pc # "await"]
     ELSE IF cs[d].pc = "await" THEN [cs[d] EXCEPT !.solo = FALSE]
     ELSE cs[d]]

\* the for loop, from the frame's index up to the next await or the return
RECURSIVE RunLoop(_, _, _)
RunLoop(agt, cs, c) ==
  LET f == cs[c] IN
  IF f.idx > Len(f.inEnvelope.events)
    THEN [cs EXCEPT ![c].pc = "returned",
                    ![c].outEnvelope = ReplyEnvelope(agt, f.inEnvelope, f.responseEvents)]
  ELSE
    LET event == f.inEnvelope.events[f.idx]
        addressedToMe == AddressedToMe(agt, event)
    IN IF addressedToMe /\ isUtteranceEvent(event)
         THEN [cs EXCEPT ![c].pc = "await",
                         ![c].pending = HandleParrotUtterance(agt, event, f.inEnvelope)]
       ELSE IF addressedToMe /\ event.eventType = "getManifests"
         THEN RunLoop(agt,
                      [Push(cs, c, PublishManifests(agt, f.inEnvelope))
                         EXCEPT ![c].idx = f.idx + 1],
                      c)
       ELSE RunLoop(agt, [cs EXCEPT ![c].idx = f.idx + 1], c)

\* processEnvelope is invoked with an envelope of E and runs to its first
\* await, or to its return when it awaits nothing
Call(c, E) ==
  /\ calls[c].pc = "idle"
  /\ \E inEnvelope \in E : calls' = RunLoop(agent, Enter(calls, c, inEnvelope), c)
  /\ UNCHANGED <<agent, requests>>

\* the awaited promise settles: the invocation takes its value (or is
\* rejected by what it threw) and runs on to the next await or the return
Resume(c) ==
  /\ calls[c].pc = "await"
  /\ calls' =
       IF calls[c].pending.kind = "throw"
         THEN [calls EXCEPT ![c].pc = "rejected", ![c].pending = NoCompletion]
       ELSE RunLoop(agent,
                    [Push(calls, c, calls[c].pending.value)
                       EXCEPT ![c].idx = calls[c].idx + 1,
                              ![c].pending = NoCompletion],
                    c)
  /\ UNCHANGED <<agent, requests>>

\* one invocation at a time
Init ==
  /\ agent \in {createParrotAgent(o) : o \in AgentOptions}
  /\ calls = [c \in {1} |-> IdleFrame]
  /\ requests = <<>>

Next ==
  \/ \E c \in DOMAIN calls : Call(c, Envelopes)
  \/ \E c \in DOMAIN calls : Resume(c)

Spec == Init /\ [][Next]_vars

\* up to MaxCalls invocations on the one agent, interleaved at their awaits
InitConc ==
  /\ agent = createParrotAgent(ServerOptions)
  /\ calls = [c \in 1..MaxCalls |-> IdleFrame]
  /\ requests = <<>>

NextConc ==
  \/ \E c \in DOMAIN calls : Call(c, ConcEnvelopes)
  \/ \E c \in DOMAIN calls : Resume(c)

SpecConc == InitConc /\ [][NextConc]_vars

(***************************************************************************)
(* The server: app.post('/') of src/src/server.ts.                         *)
(***************************************************************************)
\* a request body that is an Open Floor payload
Payload(envelope) == [openFloor |-> envelope, errors |-> <<>>]

\* a request body the payload schema rejects, with the errors it is
\* rejected for; openFloor is what the body holds in the envelope's place
BadPayload(envelope, errors) == [openFloor |-> envelope, errors |-> errors]

Bodies ==
  {Payload(e) : e \in ConcEnvelopes}
    \cup {BadPayload(NoEnvelope, <<"must have required property 'openFloor'">>),
          BadPayload(Envelope(Undefined, "conv-1",
                              [speakerUri |-> "tag:example.com,2025:user",
                               serviceUrl |-> Undefined],
                              <<Utterance(NoTo, TextDialog(<<"A">>))>>),
                     <<"must have required property 'schema'",
                       "must have required property 'version'">>)}

\* validateAndParsePayload(JSON.stringify(req.body))
validateAndParsePayload(body) ==
  IF body.errors = <<>>
    THEN [valid |-> TRUE, payload |-> [openFloor |-> body.openFloor], errors |-> <<>>]
    ELSE [valid |-> FALSE, payload |-> [openFloor |-> NoEnvelope], errors |-> body.errors]

NoResponse == [status |-> 0, body |-> [error |-> Undefined]]

NoRequest ==
  [state |-> "none", body |-> BadPayload(NoEnvelope, <<>>), response |-> NoResponse]

\* the handler up to its await: it answers 400 to a body that is not valid
\* and passes the envelope of a valid one to the agent
PostOutcome_unvalidated(body) ==
  [invoke |-> TRUE, inEnvelope |-> body.openFloor, response |-> NoResponse]

PostOutcome(body) ==
  LET validationResult == validateAndParsePayload(body) IN
  IF ~validationResult.valid
    THEN [invoke |-> FALSE, inEnvelope |-> NoEnvelope,
          response |-> [status |-> 400,
                        body |-> [error |-> "Invalid OpenFloor payload",
                                  details |-> validationResult.errors]]]
    ELSE [invoke |-> TRUE, inEnvelope |-> validationResult.payload.openFloor,
          response |-> NoResponse]

\* a POST / arrives with a body of B
Post(r, B) ==
  /\ requests[r].state = "none"
  /\ calls[r].pc = "idle"
  /\ \E body \in B :
       LET outcome == PostOutcome(body) IN
       IF outcome.invoke
         THEN /\ calls' = RunLoop(agent, Enter(calls, r, outcome.inEnvelope), r)
              /\ requests' = [requests EXCEPT ![r] =
                   [state |-> "processing", body |-> body, response |-> NoResponse]]
         ELSE /\ calls' = calls
              /\ requests' = [requests EXCEPT ![r] =
                   [state |-> "responded", body |-> body, response |-> outcome.response]]
  /\ UNCHANGED agent

\* the await of processEnvelope ends: 200 with the reply payload, or 500
\* from the catch block when the invocation was rejected
Respond(r) ==
  /\ requests[r].state = "processing"
  /\ calls[r].pc \in {"returned", "rejected"}
  /\ requests' = [requests EXCEPT ![r].state = "responded",
                                  ![r].response =
       IF calls[r].pc = "returned"
         THEN [status |-> 200, body |-> [openFloor |-> calls[r].outEnvelope]]
         ELSE [status |-> 500, body |-> [error |-> "Internal server error",
                                         message |-> "Unknown error"]]]
  /\ UNCHANGED <<agent, calls>>

InitServer ==
  /\ agent = createParrotAgent(ServerOptions)
  /\ calls = [c \in 1..MaxCalls |-> IdleFrame]
  /\ requests = [r \in 1..MaxCalls |-> NoRequest]

NextServer ==
  \/ \E r \in DOMAIN requests : Post(r, Bodies)
  \/ \E c \in DOMAIN calls : Resume(c)
  \/ \E r \in DOMAIN requests : Respond(r)

SpecServer == InitServer /\ [][NextServer]_vars

(***************************************************************************)
(* The alternate ParrotAgent of src/unnamed/part_000.                      *)
(*                                                                         *)
(* Its processEnvelope constructs the outbound envelope first, with no     *)
(* events, and its _handleParrotUtterance assigns a longer list to the     *)
(* envelope's _events each time it answers; _events is taken to be the     *)
(* field behind the events getter it reads in the same statement.  The     *)
(* handler has no await of its own: it has assigned _events by the time    *)
(* processEnvelope suspends at `await this._handleParrotUtterance(...)`.   *)
(* A frame of this implementation has outEnvelope set from its entry on    *)
(* and waits at pc "altAwait"; responseEvents stays empty.                 *)
(***************************************************************************)
\* new Envelope({schema, conversation, sender, events: []})
AltOutEnvelope(agt, inEnvelope) ==
  Envelope(inEnvelope.schema.version, inEnvelope.conversation.id,
           [speakerUri |-> agt.speakerUri, serviceUrl |-> agt.serviceUrl],
           <<>>)

\* (outEnvelope as any)._events = [...outEnvelope.events, responseEvent]
AltAppend_front(outEnvelope, responseEvent) ==
  [outEnvelope EXCEPT !.events = <<responseEvent>> \o outEnvelope.events]

AltAppend(outEnvelope, responseEvent) ==
  [outEnvelope EXCEPT !.events = outEnvelope.events \o <<responseEvent>>]

\* the body of the try block: the envelope after it, or what it throws
AltTryBody(agt, event, inEnvelope, outEnvelope) ==
  LET dialogEvent == event.dialogEvent IN
  IF ~dialogEvent.defined
    THEN Throw("TypeError")                 \* reading .features of undefined
  ELSE IF dialogEvent.features.kind = "object"
    THEN Throw("TypeError")                 \* features.get is not a function
  ELSE
    LET textFeature == IF dialogEvent.features.kind = "undefined"
                         THEN NoTextFeature \* features?.get yields undefined
                         ELSE dialogEvent.features.text
    IN IF \/ ~textFeature.defined
          \/ textFeature.tokens.kind = "undefined"
          \/ (textFeature.tokens.kind = "array" /\ Len(textFeature.tokens.items) = 0)
         THEN Return(AltAppend(outEnvelope,
                createTextUtterance(agt.speakerUri,
                  "U+1F99C *chirp* I can only repeat text messages!",
                  To(inEnvelope.sender.speakerUri, Undefined), Undefined)))
       ELSE IF textFeature.tokens.kind # "array"
         THEN Throw("TypeError")            \* tokens.map is not a function
       ELSE
         LET originalText ==
               Join([k \in 1..Len(textFeature.tokens.items) |->
                       textFeature.tokens.items[k].value], "")
             parrotText == "U+1F99C " \o originalText
         IN Return(AltAppend(outEnvelope,
              createTextUtterance(agt.speakerUri, parrotText,
                To(inEnvelope.sender.speakerUri, Undefined), "1.0")))

\* _handleParrotUtterance(event, inEnvelope, outEnvelope): the envelope
\* when its promise is fulfilled; the catch block assigns _events too
AltHandleParrotUtterance(agt, event, inEnvelope, outEnvelope) ==
  LET body == AltTryBody(agt, event, inEnvelope, outEnvelope) IN
  IF body.kind = "throw"
    THEN AltAppend(outEnvelope,
           createTextUtterance(agt.speakerUri,
             "U+1F99C *confused chirp* Something went wrong while trying to repeat that!",
             To(inEnvelope.sender.speakerUri, Undefined), Undefined))
  ELSE body.value

\* entry of processEnvelope(inEnvelope): the outbound envelope is constructed
AltEnter(agt, cs, c, inEnvelope) ==
  [cs EXCEPT ![c] = [pc |-> "running", inEnvelope |-> inEnvelope, idx |-> 1,
                     responseEvents |-> <<>>, causes |-> <<>>,
                     pending |-> NoCompletion,
                     outEnvelope |-> AltOutEnvelope(agt, inEnvelope),
                     solo |-> \A o \in DOMAIN cs \ {c} : cs[o].pc # "await"]]

\* the for loop, from the frame's index up to the next await or the return
RECURSIVE AltRunLoop(_, _, _)
AltRunLoop(agt, cs, c) ==
  LET f == cs[c] IN
  IF f.idx > Len(f.inEnvelope.events)
    THEN [cs EXCEPT ![c].pc = "returned"]
  ELSE
    LET event == f.inEnvelope.events[f.idx]
        addressedToMe == \/ ~event.to.present
                         \/ event.to.speakerUri = agt.speakerUri
                         \/ event.to.serviceUrl = agt.serviceUrl
    IN IF addressedToMe /\ isUtteranceEvent(event)
         THEN [cs EXCEPT ![c].pc = "altAwait",
                         ![c].outEnvelope =
                            AltHandleParrotUtterance(agt, event, f.inEnvelope,
                                                     f.outEnvelope),
                         ![c].causes = Append(@, f.idx)]
       ELSE AltRunLoop(agt, [cs EXCEPT ![c].idx = f.idx + 1], c)

\* the alternate processEnvelope is invoked with an envelope of E and runs
\* to its first await, or to its return when it awaits nothing
AltCall(c, E) ==
  /\ calls[c].pc = "idle"
  /\ \E inEnvelope \in E :
       calls' = AltRunLoop(agent, AltEnter(agent, calls, c, inEnvelope), c)
  /\ UNCHANGED <<agent, requests>>

\* the awaited promise is fulfilled: the loop goes on with the next event
AltResume(c) ==
  /\ calls[c].pc = "altAwait"
  /\ calls' = AltRunLoop(agent, [calls EXCEPT ![c].idx = calls[c].idx + 1], c)
  /\ UNCHANGED <<agent, requests>>

\* both implementations, built from the same options, on the same envelope:
\* invocation 1 is processEnvelope of src/src/parrot-agent.ts; once it has
\* returned, invocation 2 is the alternate processEnvelope on its argument
InitBoth ==
  /\ agent \in {createParrotAgent(o) : o \in AgentOptions}
  /\ calls = [c \in 1..2 |-> IdleFrame]
  /\ requests = <<>>

NextBoth ==
  \/ Call(1, Envelopes)
  \/ Resume(1)
  \/ (calls[1].pc = "returned" /\ AltCall(2, {calls[1].inEnvelope}))
  \/ AltResume(2)

SpecBoth == InitBoth /\ [][NextBoth]_vars

(***************************************************************************)
(* Properties.                                                             *)
(***************************************************************************)
Returned(c) == calls[c].pc = "returned"

\* the response events a returned invocation holds for inbound event i
AnswersTo(c, i) == {k \in 1..Len(calls[c].causes) : calls[c].causes[k] = i}

\* the addressing rule, case by case
NotAddressed(e) ==
  /\ e.to.present
  /\ e.to.speakerUri # agent.speakerUri
  /\ e.to.serviceUrl # agent.serviceUrl

HandledKind(e) == e.eventType \in {"utterance", "getManifests"}

\* C1: an inbound event gets a response only if it is addressed to the
\* agent (no `to`, or to.speakerUri is the agent's, or to.serviceUrl is the
\* agent's), and every utterance or getManifests event so addressed gets
\* one; an utterance to another speakerUri with no serviceUrl gets none,
\* an event with no `to` gets one, and nothing is raised.
C1_AddressedIffHandled ==
  \A c \in DOMAIN calls :
    /\ calls[c].pc # "rejected"
    /\ Returned(c) =>
         \A i \in 1..Len(calls[c].inEnvelope.events) :
           LET e == calls[c].inEnvelope.events[i] IN
           /\ NotAddressed(e) => AnswersTo(c, i) = {}
           /\ (~NotAddressed(e) /\ HandledKind(e)) => AnswersTo(c, i) # {}
           /\ (~e.to.present /\ HandledKind(e)) => AnswersTo(c, i) # {}
           /\ (/\ e.eventType = "utterance"
               /\ e.to.present
               /\ e.to.speakerUri \notin {Undefined, agent.speakerUri}
               /\ e.to.serviceUrl = Undefined) => AnswersTo(c, i) = {}

\* C1 witness: one envelope with an utterance to another speaker (no
\* serviceUrl) left unanswered and an utterance without `to` answered.
C1_Witness ==
  \E c \in DOMAIN calls :
    /\ Returned(c)
    /\ \E i, j \in 1..Len(calls[c].inEnvelope.events) :
         LET e == calls[c].inEnvelope.events[i]
             b == calls[c].inEnvelope.events[j]
         IN /\ e.eventType = "utterance" /\ e.to.present
            /\ e.to.speakerUri = "tag:example.com,2025:other-agent"
            /\ e.to.serviceUrl = Undefined
            /\ AnswersTo(c, i) = {}
            /\ b.eventType = "utterance" /\ ~b.to.present
            /\ AnswersTo(c, j) # {}

\* the token values of a text feature, concatenated from the last one back
RECURSIVE Concat(_)
Concat(items) ==
  IF items = <<>> THEN ""
  ELSE Concat(SubSeq(items, 1, Len(items) - 1)) \o items[Len(items)].value

\* the utterance carries a text feature with at least one token
HasText(e) ==
  /\ e.eventType = "utterance"
  /\ e.dialogEvent.defined
  /\ e.dialogEvent.features.kind = "map"
  /\ e.dialogEvent.features.text.defined
  /\ e.dialogEvent.features.text.tokens.kind = "array"
  /\ Len(e.dialogEvent.features.text.tokens.items) >= 1

\* C2: the response to an addressed utterance with one or more tokens has
\* the text "U+1F99C " followed by the token values concatenated in order
\* with nothing between them, and confidence 1.0; tokens "Hello, " and
\* "world!" give "U+1F99C Hello, world!".
C2_EchoText ==
  \A c \in DOMAIN calls :
    Returned(c) =>
      \A i \in 1..Len(calls[c].inEnvelope.events) :
        LET e == calls[c].inEnvelope.events[i] IN
        (HasText(e) /\ ~NotAddressed(e)) =>
          /\ Cardinality(AnswersTo(c, i)) = 1
          /\ \A k \in AnswersTo(c, i) :
               LET r == calls[c].outEnvelope.events[k] IN
               /\ r.eventType = "utterance"
               /\ r.text = "U+1F99C " \o Concat(e.dialogEvent.features.text.tokens.items)
               /\ r.confidence = "1.0"
               /\ e.dialogEvent.features.text.tokens.items
                    = <<[value |-> "Hello, "], [value |-> "world!"]>>
                  => r.text = "U+1F99C Hello, world!"

\* C2 witness: the tokens "Hello, " and "world!" were echoed.
C2_Witness ==
  \E c \in DOMAIN calls :
    /\ Returned(c)
    /\ Len(calls[c].inEnvelope.events) = 1
    /\ HasText(calls[c].inEnvelope.events[1])
    /\ calls[c].inEnvelope.events[1].dialogEvent.features.text.tokens.items
         = <<[value |-> "Hello, "], [value |-> "world!"]>>
    /\ Len(calls[c].outEnvelope.events) = 1
    /\ calls[c].outEnvelope.events[1].text = "U+1F99C Hello, world!"
    /\ calls[c].outEnvelope.events[1].confidence = "1.0"

\* C3: an invocation returns one envelope, with the schema version and the
\* conversation id of the inbound envelope and the agent's own speakerUri
\* and serviceUrl as sender; no events in, no events out.
C3_ReplyHeader ==
  \A c \in DOMAIN calls :
    /\ calls[c].pc # "rejected"
    /\ ~Returned(c) => calls[c].outEnvelope = NoEnvelope
    /\ Returned(c) =>
         /\ calls[c].outEnvelope.schema.version = calls[c].inEnvelope.schema.version
         /\ calls[c].outEnvelope.conversation.id = calls[c].inEnvelope.conversation.id
         /\ calls[c].outEnvelope.sender.speakerUri = agent.speakerUri
         /\ calls[c].outEnvelope.sender.serviceUrl = agent.serviceUrl
         /\ DOMAIN calls[c].outEnvelope.sender = {"speakerUri", "serviceUrl"}
         /\ calls[c].inEnvelope.events = <<>> => calls[c].outEnvelope.events = <<>>

\* C3 witness: an envelope without events from the floor was answered.
C3_Witness ==
  \E c \in DOMAIN calls :
    /\ Returned(c)
    /\ calls[c].inEnvelope.events = <<>>
    /\ calls[c].inEnvelope.conversation.id = "conv-2"
    /\ calls[c].inEnvelope.sender.speakerUri = "tag:example.com,2025:floor"
    /\ calls[c].outEnvelope.conversation.id = "conv-2"
    /\ calls[c].outEnvelope.events = <<>>

Malformed(e) ==
  /\ e.eventType = "utterance"
  /\ \/ ~e.dialogEvent.defined
     \/ e.dialogEvent.features.kind = "object"
     \/ /\ e.dialogEvent.features.kind = "map"
        /\ e.dialogEvent.features.text.defined
        /\ e.dialogEvent.features.text.tokens.kind = "object"

\* C5: no invocation ends by raising: whatever the addressing, dialog or
\* feature structure of the inbound events, the invocation returns an
\* envelope of utterance and publishManifests events, and an addressed
\* utterance whose dialog is malformed has a response event in it.
C5_NeverRaises ==
  \A c \in DOMAIN calls :
    /\ calls[c].pc \in {"idle", "await", "returned"}
    /\ calls[c].pending.kind # "throw"
    /\ Returned(c) =>
         /\ Len(calls[c].outEnvelope.events) <= Len(calls[c].inEnvelope.events)
         /\ \A k \in 1..Len(calls[c].outEnvelope.events) :
              calls[c].outEnvelope.events[k].eventType
                \in {"utterance", "publishManifests"}
         /\ \A i \in 1..Len(calls[c].inEnvelope.events) :
              LET e == calls[c].inEnvelope.events[i] IN
              (Malformed(e) /\ ~NotAddressed(e)) =>
                \E k \in AnswersTo(c, i) :
                  calls[c].outEnvelope.events[k].eventType = "utterance"

\* C5 witness: an utterance without a dialog event, with an empty `to`
\* object sent to the agent's service, was answered.
C5_Witness ==
  \E c \in DOMAIN calls :
    /\ Returned(c)
    /\ Len(calls[c].inEnvelope.events) = 1
    /\ Malformed(calls[c].inEnvelope.events[1])
    /\ ~calls[c].inEnvelope.events[1].dialogEvent.defined
    /\ calls[c].inEnvelope.events[1].to.present
    /\ calls[c].inEnvelope.events[1].to.speakerUri = Undefined
    /\ calls[c].inEnvelope.events[1].to.serviceUrl = agent.serviceUrl
    /\ Len(calls[c].outEnvelope.events) = 1
    /\ calls[c].outEnvelope.events[1].eventType = "utterance"

\* the texts of the utterances among the events, in order
RECURSIVE Texts(_)
Texts(events) ==
  IF events = <<>> THEN <<>>
  ELSE (IF Head(events).eventType = "utterance" THEN <<Head(events).text>> ELSE <<>>)
         \o Texts(Tail(events))

\* C6: responses keep the order of the inbound events that caused them,
\* utterances and getManifests mixed: the response to an earlier event
\* stands before the response to a later one; three utterances "A", "B",
\* "C" without `to` give "U+1F99C A", "U+1F99C B", "U+1F99C C" in that order.
C6_OrderPreserved ==
  \A c \in DOMAIN calls :
    /\ \A k, l \in 1..Len(calls[c].causes) :
         k < l => calls[c].causes[k] < calls[c].causes[l]
    /\ Returned(c) =>
         /\ Len(calls[c].outEnvelope.events) = Len(calls[c].causes)
         /\ calls[c].inEnvelope.events
              = <<Utterance(NoTo, TextDialog(<<"A">>)),
                  Utterance(NoTo, TextDialog(<<"B">>)),
                  Utterance(NoTo, TextDialog(<<"C">>))>>
            => Texts(calls[c].outEnvelope.events)
                 = <<"U+1F99C A", "U+1F99C B", "U+1F99C C">>

\* C6 witness: "A", getManifests, "C" were answered by an echo of A, a
\* publishManifests event and an echo of C, in that order.
C6_Witness ==
  \E c \in DOMAIN calls :
    /\ Returned(c)
    /\ calls[c].inEnvelope.events
         = <<Utterance(NoTo, TextDialog(<<"A">>)),
             Event("getManifests", NoTo),
             Utterance(NoTo, TextDialog(<<"C">>))>>
    /\ Len(calls[c].outEnvelope.events) = 3
    /\ calls[c].outEnvelope.events[1].text = "U+1F99C A"
    /\ calls[c].outEnvelope.events[2].eventType = "publishManifests"
    /\ calls[c].outEnvelope.events[3].text = "U+1F99C C"

\* the utterance has a readable dialog without text: no text feature, or a
\* text feature whose token array is empty
NoText(e) ==
  /\ e.eventType = "utterance"
  /\ e.dialogEvent.defined
  /\ \/ e.dialogEvent.features.kind = "undefined"
     \/ /\ e.dialogEvent.features.kind = "map"
        /\ ~e.dialogEvent.features.text.defined
     \/ /\ e.dialogEvent.features.kind = "map"
        /\ e.dialogEvent.features.text.defined
        /\ e.dialogEvent.features.text.tokens.kind = "array"
        /\ e.dialogEvent.features.text.tokens.items = <<>>

C8_ReplyToSender ==
  \A c \in DOMAIN calls :
    LET target == [present    |-> TRUE,
                   speakerUri |-> calls[c].inEnvelope.sender.speakerUri,
                   serviceUrl |-> Undefined]
    IN /\ \A k \in 1..Len(calls[c].responseEvents) :
            calls[c].responseEvents[k].to = target
       /\ \A k \in 1..Len(calls[c].outEnvelope.events) :
            calls[c].outEnvelope.events[k].to = target
       /\ calls[c].pending.kind = "return" => calls[c].pending.value.to = target

\* C8 witness: the floor, which has a serviceUrl, sent a getManifests event
\* and an utterance addressed to the agent's speakerUri; both responses
\* went to the floor's speakerUri.
C8_Witness ==
  \E c \in DOMAIN calls :
    /\ Returned(c)
    /\ calls[c].inEnvelope.sender.serviceUrl = "https://floor.example.com/"
    /\ Len(calls[c].outEnvelope.events) = 2
    /\ calls[c].outEnvelope.events[1].eventType = "publishManifests"
    /\ calls[c].outEnvelope.events[2].eventType = "utterance"
    /\ calls[c].outEnvelope.events[2].text = ConfusedChirpText
    /\ \A k \in 1..2 :
         calls[c].outEnvelope.events[k].to.speakerUri = "tag:example.com,2025:floor"

\* an invocation run with no other invocation beside it, every awaited
\* promise settled in turn, up to its end
RECURSIVE Settle(_, _)
Settle(agt, cs) ==
  IF cs[1].pc # "await" THEN cs[1]
  ELSE IF cs[1].pending.kind = "throw" THEN [cs[1] EXCEPT !.pc = "rejected"]
  ELSE Settle(agt, RunLoop(agt,
                           [Push(cs, 1, cs[1].pending.value)
                              EXCEPT ![1].idx = cs[1].idx + 1,
                                     ![1].pending = NoCompletion],
                           1))

RunAlone(agt, inEnvelope) ==
  Settle(agt, RunLoop(agt, Enter([c \in {1} |-> IdleFrame], 1, inEnvelope), 1))

\* C9: invocations interleaved at their awaits do not disturb each other:
\* every invocation returns the envelope it returns when run alone, and
\* the agent (identity and manifest) is the one that was constructed.
C9_ConcurrentAsAlone ==
  /\ agent = createParrotAgent(ServerOptions)
  /\ \A c \in DOMAIN calls :
       /\ calls[c].pc # "rejected"
       /\ Returned(c) =>
            LET alone == RunAlone(agent, calls[c].inEnvelope) IN
            /\ alone.pc = "returned"
            /\ calls[c].outEnvelope = alone.outEnvelope

\* C9 witness: two invocations with different envelopes, each suspended
\* while the other ran, have both returned their responses.
C9_Witness ==
  \E c, d \in DOMAIN calls :
    /\ c # d
    /\ Returned(c) /\ Returned(d)
    /\ ~calls[c].solo /\ ~calls[d].solo
    /\ calls[c].inEnvelope # calls[d].inEnvelope
    /\ Len(calls[c].outEnvelope.events) = 2
    /\ Len(calls[d].outEnvelope.events) = 2

\* C10: two invocations with the same inbound envelope, one after the
\* other, return envelopes equal in header, events and event order.
C10_SameInSameOut ==
  \A c, d \in DOMAIN calls :
    (/\ c # d
     /\ Returned(c) /\ Returned(d)
     /\ calls[c].solo /\ calls[d].solo
     /\ calls[c].inEnvelope = calls[d].inEnvelope)
    => /\ calls[c].outEnvelope.schema = calls[d].outEnvelope.schema
       /\ calls[c].outEnvelope.conversation = calls[d].outEnvelope.conversation
       /\ calls[c].outEnvelope.sender = calls[d].outEnvelope.sender
       /\ Len(calls[c].outEnvelope.events) = Len(calls[d].outEnvelope.events)
       /\ \A k \in 1..Len(calls[c].outEnvelope.events) :
            calls[c].outEnvelope.events[k] = calls[d].outEnvelope.events[k]

\* C10 witness: the same envelope of an utterance and a getManifests event
\* was processed twice, one invocation after the other, with equal results.
C10_Witness ==
  \E c, d \in DOMAIN calls :
    /\ c # d
    /\ Returned(c) /\ Returned(d)
    /\ calls[c].solo /\ calls[d].solo
    /\ calls[c].inEnvelope = calls[d].inEnvelope
    /\ Len(calls[c].inEnvelope.events) = 2
    /\ Len(calls[c].outEnvelope.events) = 2
    /\ calls[c].outEnvelope = calls[d].outEnvelope

\* C11: in the POST / handler validation comes before the agent: a body
\* that is not valid is answered 400 with the validation errors in
\* `details` and processEnvelope is not invoked for that request; an
\* invocation only ever runs on the envelope of a body that passed.
C11_ValidationFirst ==
  \A r \in DOMAIN requests :
    /\ (requests[r].state # "none" /\ requests[r].body.errors # <<>>) =>
         /\ requests[r].state = "responded"
         /\ requests[r].response.status = 400
         /\ requests[r].response.body.details = requests[r].body.errors
         /\ calls[r].pc = "idle"
         /\ calls[r].inEnvelope = NoEnvelope
    /\ calls[r].pc # "idle" =>
         /\ requests[r].state # "none"
         /\ requests[r].body.errors = <<>>
         /\ calls[r].inEnvelope = requests[r].body.openFloor
    /\ requests[r].response.status = 200 =>
         /\ requests[r].body.errors = <<>>
         /\ requests[r].response.body.openFloor = calls[r].outEnvelope

\* C11 witness: a body without schema version was answered 400 with its
\* two errors and no invocation, while another request got its 200.
C11_Witness ==
  \E r, q \in DOMAIN requests :
    /\ requests[r].state = "responded"
    /\ requests[r].body.openFloor.events # <<>>
    /\ Len(requests[r].body.errors) = 2
    /\ requests[r].response.status = 400
    /\ Len(requests[r].response.body.details) = 2
    /\ calls[r].pc = "idle"
    /\ requests[q].response.status = 200
    /\ Len(requests[q].response.body.openFloor.events) = 1

\* the event names a service that is not the agent's configured serviceUrl
OtherService(e) ==
  /\ e.to.present
  /\ e.to.serviceUrl # Undefined
  /\ e.to.serviceUrl # agent.serviceUrl

Answerable(c) ==
  {i \in 1..Len(calls[c].inEnvelope.events) :
     /\ ~NotAddressed(calls[c].inEnvelope.events[i])
     /\ HandledKind(calls[c].inEnvelope.events[i])}

\* C14: the returned envelope holds exactly one event for each addressed
\* utterance or getManifests event and none for any other event, so it
\* holds as many events as there are such inbound events.
C14_OneEventEach ==
  \A c \in DOMAIN calls :
    /\ calls[c].pc # "rejected"
    /\ Returned(c) =>
         /\ Len(calls[c].outEnvelope.events) = Cardinality(Answerable(c))
         /\ Len(calls[c].causes) = Len(calls[c].outEnvelope.events)
         /\ \A i \in 1..Len(calls[c].inEnvelope.events) :
              Cardinality(AnswersTo(c, i)) = IF i \in Answerable(c) THEN 1 ELSE 0

\* C14 witness: of an invite without `to`, an utterance to another agent
\* and a getManifests event without `to`, only the last was answered.
C14_Witness ==
  \E c \in DOMAIN calls :
    /\ Returned(c)
    /\ calls[c].inEnvelope.events
         = <<Event("invite", NoTo),
             Utterance(To("tag:example.com,2025:other-agent", Undefined),
                       TextDialog(<<"A">>)),
             Event("getManifests", NoTo)>>
    /\ Len(calls[c].outEnvelope.events) = 1
    /\ calls[c].outEnvelope.events[1].eventType = "publishManifests"

\* C15: processEnvelope never changes an envelope in place, in either
\* implementation: from the entry of an invocation on its inbound envelope
\* stays as it was, and from the construction of its outbound envelope on
\* that envelope, its event list included, stays as it was.
C15_NeverMutates ==
  [][\A c \in DOMAIN calls :
       /\ calls[c].pc # "idle" => calls'[c].inEnvelope = calls[c].inEnvelope
       /\ calls[c].outEnvelope # NoEnvelope =>
            calls'[c].outEnvelope = calls[c].outEnvelope]_vars

\* both implementations have returned
BothReturned == Returned(1) /\ Returned(2) /\ calls[2].inEnvelope = calls[1].inEnvelope

\* the events of the first implementation that do not answer a getManifests
WithoutManifests(c) ==
  LET keep == {k \in 1..Len(calls[c].causes) :
                 calls[c].inEnvelope.events[calls[c].causes[k]].eventType
                   # "getManifests"}
      RECURSIVE From(_)
      From(k) == IF k > Len(calls[c].causes) THEN <<>>
                 ELSE IF k \in keep
                   THEN <<calls[c].outEnvelope.events[k]>> \o From(k + 1)
                 ELSE From(k + 1)
  IN From(1)

\* C16: on the same inbound envelope the two implementations return the
\* same schema version, conversation id and sender, and the alternate one
\* returns the events of the other less those that answer a getManifests
\* event: the same envelope when the inbound one has no getManifests event,
\* and no event for an addressed getManifests, which the other answers.
C16_Equivalent ==
  BothReturned =>
    LET m == calls[1].outEnvelope
        a == calls[2].outEnvelope
        events == calls[1].inEnvelope.events
    IN /\ a.schema = m.schema
       /\ a.conversation = m.conversation
       /\ a.sender = m.sender
       /\ a.events = WithoutManifests(1)
       /\ (\A i \in 1..Len(events) : events[i].eventType # "getManifests") => a = m
       /\ \A i \in 1..Len(events) :
            IF events[i].eventType = "getManifests"
              THEN /\ AnswersTo(2, i) = {}
                   /\ ~NotAddressed(events[i]) => Cardinality(AnswersTo(1, i)) = 1
            ELSE Cardinality(AnswersTo(2, i)) = Cardinality(AnswersTo(1, i))

\* C16 witness: both implementations answered the utterances "A" and "B"
\* with the same two events.
C16_Witness ==
  /\ BothReturned
  /\ calls[1].inEnvelope.events
       = <<Utterance(NoTo, TextDialog(<<"A">>)), Utterance(NoTo, TextDialog(<<"B">>))>>
  /\ Len(calls[2].outEnvelope.events) = 2
  /\ calls[2].outEnvelope.events[1].text = "U+1F99C A"
  /\ calls[2].outEnvelope.events[2].text = "U+1F99C B"
  /\ calls[2].outEnvelope = calls[1].outEnvelope

====
